---- MODULE Spec2Model ----
(***************************************************************************)
(* Model of the Snaffler PowerBI helper scripts:                           *)
(*   scripts/PowerBI-unflatten.py        normalize_entry,                  *)
(*                                       transform_document, main          *)
(*   scripts/PowerBI-merge-converted.py  load_json, extract_entries,       *)
(*                                       merge_entries, main               *)
(*                                                                         *)
(* JSON values are tagged records.  A mapping keeps its members as a       *)
(* sequence of <<key, value>> pairs in insertion order, as a Python dict   *)
(* does; Python's None is the JSON null.  An exception that leaves a       *)
(* function is the value Raise(name) in place of the function's result.    *)
(***************************************************************************)
EXTENDS Integers, Sequences, FiniteSets

VARIABLES
    \* normalize_entry, called once and then again on its own output
    npc, entry, keep_raw, normalized, keep_raw2, renormalized,
    \* transform_document, followed by main's parity check of its result
    tpc, document, tkeep, transformed, parity,
    \* PowerBI-unflatten.py main: the conversion loop
    cpc, nfiles, ckeep, visited, converted_count, skipped_count,
    failure, outcomes, touched, exit_code,
    \* PowerBI-merge-converted.py main: the merge
    mpc, mfiles, strict, mvisited, merged, loaded, mfailure, written, rc

nvars == <<npc, entry, keep_raw, normalized, keep_raw2, renormalized>>
tvars == <<tpc, document, tkeep, transformed, parity>>
cvars == <<cpc, nfiles, ckeep, visited, converted_count, skipped_count,
           failure, outcomes, touched, exit_code>>
mvars == <<mpc, mfiles, strict, mvisited, merged, loaded, mfailure, written, rc>>
vars  == <<nvars, tvars, cvars, mvars>>

----------------------------------------------------------------------------
\* Bounds of the model.

\* severity buckets in one eventProperties object
MaxBuckets == 2
\* elements of one document's entries list
MaxEntries == 2
\* files matched in the input directory
MaxFiles == 3

----------------------------------------------------------------------------
\* JSON values.

JNull     == [t |-> "null"]
JBool(b)  == [t |-> "bool", b |-> b]
JInt(n)   == [t |-> "int", n |-> n]
JStr(s)   == [t |-> "str", s |-> s]
JList(xs) == [t |-> "list", items |-> xs]
JDict(ps) == [t |-> "dict", members |-> ps]

Raise(exc) == [t |-> "raise", exc |-> exc]

IsRaise(v) == v.t = "raise"

\* isinstance(v, dict), isinstance(v, list)
IsDict(v) == v.t = "dict"

IsList(v) == v.t = "list"

\* Python truth value of a JSON value, as `x or y` and `if x` take it.
Truthy(v) ==
    CASE v.t = "null" -> FALSE
      [] v.t = "bool" -> v.b
      [] v.t = "int"  -> v.n # 0
      [] v.t = "str"  -> v.s # ""
      [] v.t = "list" -> Len(v.items) > 0
      [] v.t = "dict" -> Len(v.members) > 0
      [] OTHER        -> TRUE

\* d.keys()
Keys(d) == {d.members[i][1] : i \in 1..Len(d.members)}

\* k in d
Has(d, k) == k \in Keys(d)

\* d.get(k): a missing key gives None
Get(d, k) ==
    IF Has(d, k)
    THEN LET i == CHOOSE j \in 1..Len(d.members) : d.members[j][1] = k
         IN  d.members[i][2]
    ELSE JNull

\* d[k] = v: an existing key keeps its place, a new key goes last
SetItem(d, k, v) ==
    IF Has(d, k)
    THEN JDict([i \in 1..Len(d.members) |->
                   IF d.members[i][1] = k THEN <<k, v>> ELSE d.members[i]])
    ELSE JDict(Append(d.members, <<k, v>>))

RECURSIVE UpdateFrom(_, _, _)
\* d updated with ps[i..]; {**a, **b} is UpdateFrom(a, b.members, 1)
UpdateFrom(d, ps, i) ==
    IF i > Len(ps) THEN d
    ELSE UpdateFrom(SetItem(d, ps[i][1], ps[i][2]), ps, i + 1)

\* {k: v for k, v in d.items() if k not in excluded}
WithoutKeys(d, excluded) ==
    JDict(SelectSeq(d.members, LAMBDA p : p[1] \notin excluded))

----------------------------------------------------------------------------
\* normalize_entry

\* entry.get("eventProperties") or {}
event_props_of(e) ==
    LET got == Get(e, "eventProperties")
    IN  IF Truthy(got) THEN got ELSE JDict(<<>>)

\* next(iter(event_props.items())) if event_props else (None, None);
\* .items() exists on a dict only
first_bucket(event_props) ==
    IF Truthy(event_props)
    THEN IF IsDict(event_props)
         THEN [t        |-> "bucket",
               severity |-> JStr(event_props.members[1][1]),
               payload  |-> event_props.members[1][2]]
         ELSE Raise("AttributeError")
    ELSE [t |-> "bucket", severity |-> JNull, payload |-> JNull]

\* excluded_keys with the legacy field dropped whatever the flag says
excluded_keys_always_drop(drop_raw_event_properties_field) ==
    {"eventProperties", "rawEventProperties"}

\* excluded_keys with the wrapper field left in the copy
excluded_keys_keep_wrapper(drop_raw_event_properties_field) ==
    IF drop_raw_event_properties_field THEN {"rawEventProperties"} ELSE {}

excluded_keys(drop_raw_event_properties_field) ==
    {"eventProperties"} \cup
    (IF drop_raw_event_properties_field THEN {"rawEventProperties"} ELSE {})

\* {"severity": severity, **(payload or {})}; ** takes a mapping only
event_block(severity, payload) ==
    LET p == IF Truthy(payload) THEN payload ELSE JDict(<<>>)
    IN  IF IsDict(p)
        THEN UpdateFrom(JDict(<< <<"severity", severity>> >>), p.members, 1)
        ELSE Raise("TypeError")

normalize_entry(e, keep_raw_event_properties, drop_raw_event_properties_field) ==
    LET event_props == event_props_of(e)
        bucket      == first_bucket(event_props)
    IN  IF IsRaise(bucket) THEN bucket
        ELSE
        LET severity == bucket.severity
            payload  == bucket.payload
            base     == WithoutKeys(e, excluded_keys(drop_raw_event_properties_field))
        IN  IF Truthy(severity)
            THEN LET event == event_block(severity, payload)
                 IN  IF IsRaise(event) THEN event
                     ELSE LET with_event == SetItem(base, "event", event)
                          IN  IF keep_raw_event_properties
                              THEN SetItem(with_event, "rawEventProperties", event_props)
                              ELSE with_event
            ELSE base

----------------------------------------------------------------------------
\* The entries normalize_entry is applied to.

BucketNames == {"", "Green", "Red"}

\* what a bucket may hold: event objects, and values that are no object
Payloads ==
    { JDict(<<>>),
      JDict(<< <<"DateTime", JStr("2024-01-01")>>, <<"Note", JStr("ok")>> >>),
      JDict(<< <<"Note", JStr("ok")>>, <<"severity", JStr("Black")>> >>),
      JNull, JStr("x"), JList(<< JInt(1) >>) }

\* the members of a non-empty eventProperties object: distinct bucket names
BucketSeqs ==
    UNION { { s \in [1..n -> BucketNames \X Payloads] :
                \A i, j \in 1..n : s[i][1] = s[j][1] => i = j }
            : n \in 1..MaxBuckets }

\* what "eventProperties" may hold
Wrappers ==
    { JNull, JBool(FALSE), JBool(TRUE), JInt(0), JInt(5), JStr(""), JStr("abc"),
      JList(<<>>), JList(<< JInt(1) >>), JDict(<<>>) }
    \cup { JDict(s) : s \in BucketSeqs }

Field(present, k, v) == IF present THEN << <<k, v>> >> ELSE <<>>

\* an entry with or without each of "event", "eventProperties" and
\* "rawEventProperties"; wrapper is <<>> or <<w>>
EntryOf(hasEvent, wrapper, hasRaw) ==
    JDict(   Field(TRUE, "id", JInt(1))
          \o Field(hasEvent, "event", JStr("old"))
          \o (IF wrapper = <<>> THEN <<>> ELSE << <<"eventProperties", wrapper[1]>> >>)
          \o Field(hasRaw, "rawEventProperties", JStr("legacy")))

Entries ==
    { EntryOf(hasEvent, wrapper, hasRaw) :
        hasEvent \in BOOLEAN, hasRaw \in BOOLEAN,
        wrapper \in {<<>>} \cup { <<w>> : w \in Wrappers } }

----------------------------------------------------------------------------
\* normalize_entry as the driver calls it: drop_raw_field = not keep_raw
\* (main, lines 170-171), once on an entry and once more on its own output.

NormIdle ==
    /\ npc = "idle" /\ entry = JNull /\ keep_raw = FALSE /\ normalized = JNull
    /\ keep_raw2 = FALSE /\ renormalized = JNull

NormInit ==
    /\ npc = "start"
    /\ entry \in Entries
    /\ keep_raw \in BOOLEAN
    /\ normalized = JNull
    /\ keep_raw2 = FALSE
    /\ renormalized = JNull

Normalize ==
    /\ npc = "start"
    /\ normalized' = normalize_entry(entry, keep_raw, ~keep_raw)
    /\ npc' = "normalized"
    /\ UNCHANGED <<entry, keep_raw, keep_raw2, renormalized>>
    /\ UNCHANGED <<tvars, cvars, mvars>>

Renormalize ==
    /\ npc = "normalized"
    /\ ~IsRaise(normalized)
    /\ \E k \in BOOLEAN :
          /\ keep_raw2' = k
          /\ renormalized' = normalize_entry(normalized, k, ~k)
    /\ npc' = "renormalized"
    /\ UNCHANGED <<entry, keep_raw, normalized>>
    /\ UNCHANGED <<tvars, cvars, mvars>>

----------------------------------------------------------------------------
\* transform_document

\* the list comprehension of lines 80-89, element by element
transformed_entries(entries, keep_raw_event_properties, drop_raw_event_properties_field) ==
    [i \in 1..Len(entries) |->
        IF IsDict(entries[i])
        THEN normalize_entry(entries[i], keep_raw_event_properties,
                             drop_raw_event_properties_field)
        ELSE entries[i]]

transform_document(doc, keep_raw_event_properties, drop_raw_event_properties_field) ==
    IF ~IsDict(doc) THEN doc
    ELSE LET entries == Get(doc, "entries")
         IN  IF ~IsList(entries) THEN doc
             ELSE LET out == transformed_entries(entries.items,
                                 keep_raw_event_properties,
                                 drop_raw_event_properties_field)
                      \* the first entry whose normalization raises ends the call
                      bad == {i \in 1..Len(out) : IsDict(entries.items[i]) /\ IsRaise(out[i])}
                  IN  IF bad # {}
                      THEN out[CHOOSE i \in bad : \A j \in bad : i <= j]
                      ELSE JDict(<< <<"entries", JList(out)>> >>)

\* main, lines 202-210: None, or the AssertionError it raises
parity_check(raw_doc, new_doc) ==
    IF IsDict(raw_doc) /\ IsList(Get(raw_doc, "entries"))
    THEN LET raw_count   == JInt(Len(Get(raw_doc, "entries").items))
             new_entries == IF IsDict(new_doc) THEN Get(new_doc, "entries") ELSE JNull
             new_count   == IF IsList(new_entries)
                            THEN JInt(Len(new_entries.items)) ELSE JNull
         IN  IF new_count = JNull \/ raw_count # new_count
             THEN Raise("AssertionError")
             ELSE JNull
    ELSE JNull

----------------------------------------------------------------------------
\* The documents transform_document is applied to.

GreenEvent == JDict(<< <<"DateTime", JStr("2024-01-01")>>, <<"Note", JStr("ok")>> >>)

\* what an entries list may hold: entries, and values that are no object
Elements ==
    { EntryOf(FALSE, <<>>, FALSE),
      EntryOf(FALSE, << JDict(<< <<"Green", GreenEvent>> >>) >>, FALSE),
      EntryOf(FALSE, << JDict(<< <<"Red", JDict(<<>>)>>, <<"Green", GreenEvent>> >>) >>, TRUE),
      EntryOf(FALSE, << JDict(<< <<"", GreenEvent>> >>) >>, FALSE),
      EntryOf(FALSE, << JStr("abc") >>, FALSE),
      EntryOf(FALSE, << JDict(<< <<"Red", JStr("x")>> >>) >>, FALSE),
      JNull, JInt(3), JStr("s"), JList(<<>>) }

EntryLists == UNION { [1..n -> Elements] : n \in 0..MaxEntries }

Meta(present) == Field(present, "generator", JStr("snaffler"))

Documents ==
    { JDict(Meta(m) \o << <<"entries", JList(es)>> >>) :
        m \in BOOLEAN, es \in EntryLists }
    \cup
    { JNull, JInt(0), JStr("text"), JBool(TRUE), JList(<<>>),
      JList(<< EntryOf(FALSE, <<>>, FALSE) >>),
      JDict(<<>>), JDict(Meta(TRUE)),
      JDict(Meta(TRUE) \o << <<"entries", JNull>> >>),
      JDict(<< <<"entries", JStr("none")>> >>),
      JDict(<< <<"entries", JDict(<< <<"id", JInt(1)>> >>)>> >>) }

----------------------------------------------------------------------------
\* transform_document as main calls it (lines 193-197), then the parity
\* check main makes of its result (lines 202-210).

TransIdle ==
    /\ tpc = "idle" /\ document = JNull /\ tkeep = FALSE
    /\ transformed = JNull /\ parity = JNull

TransInit ==
    /\ tpc = "start"
    /\ document \in Documents
    /\ tkeep \in BOOLEAN
    /\ transformed = JNull
    /\ parity = JNull

Transform ==
    /\ tpc = "start"
    /\ transformed' = transform_document(document, tkeep, ~tkeep)
    /\ tpc' = "transformed"
    /\ UNCHANGED <<document, tkeep, parity>>
    /\ UNCHANGED <<nvars, cvars, mvars>>

ParityCheck ==
    /\ tpc = "transformed"
    /\ ~IsRaise(transformed)
    /\ parity' = parity_check(document, transformed)
    /\ tpc' = "checked"
    /\ UNCHANGED <<document, tkeep, transformed>>
    /\ UNCHANGED <<nvars, cvars, mvars>>

----------------------------------------------------------------------------
\* PowerBI-unflatten.py main: the loop over the matched files.

\* One matched file, as the loop meets it: whether its name ends with the
\* output suffix, how reading it ends, what it parses to, and how writing
\* and re-reading its output end.
ConvertedName == [converted_name |-> TRUE, load |-> "ok", doc |-> JNull,
                  write |-> "ok", reload |-> "ok"]

InputFiles ==
    { ConvertedName }
    \cup
    { [converted_name |-> FALSE, load |-> l, doc |-> JNull, write |-> "ok", reload |-> "ok"] :
        l \in {"JSONDecodeError", "UnicodeDecodeError", "OSError"} }
    \cup
    { [converted_name |-> FALSE, load |-> "ok", doc |-> d, write |-> w, reload |-> r] :
        d \in Documents, w \in {"ok", "OSError"}, r \in {"ok", "OSError"} }

NoFailure == [exc |-> "none", at |-> "none"]

Counted(kind, did_read, did_write) ==
    [kind |-> kind, failure |-> NoFailure, read |-> did_read, written |-> did_write]

Uncaught(exc, at, did_write) ==
    [kind |-> "raised", failure |-> [exc |-> exc, at |-> at],
     read |-> TRUE, written |-> did_write]

\* convert_file without the guard of lines 178-180 on the output suffix
convert_file_no_suffix_guard(f, keep) ==
    IF f.load # "ok" THEN Counted("skipped", TRUE, FALSE)
    ELSE LET new_doc == transform_document(f.doc, keep, ~keep)
         IN  IF IsRaise(new_doc) THEN Uncaught(new_doc.exc, "transform_document", FALSE)
             ELSE IF f.write # "ok" THEN Uncaught(f.write, "write_json", FALSE)
             ELSE IF IsRaise(parity_check(f.doc, new_doc))
                  THEN Uncaught("AssertionError", "parity check", TRUE)
             ELSE IF f.reload # "ok" THEN Uncaught(f.reload, "load_json(out_path)", TRUE)
             ELSE Counted("converted", TRUE, TRUE)

\* the body of the for loop, lines 177-215, for one file
convert_file(f, keep) ==
    IF f.converted_name THEN Counted("skipped", FALSE, FALSE)
    ELSE IF f.load # "ok" THEN Counted("skipped", TRUE, FALSE)
    ELSE LET new_doc == transform_document(f.doc, keep, ~keep)
         IN  IF IsRaise(new_doc) THEN Uncaught(new_doc.exc, "transform_document", FALSE)
             ELSE IF f.write # "ok" THEN Uncaught(f.write, "write_json", FALSE)
             ELSE IF IsRaise(parity_check(f.doc, new_doc))
                  THEN Uncaught("AssertionError", "parity check", TRUE)
             ELSE IF f.reload # "ok" THEN Uncaught(f.reload, "load_json(out_path)", TRUE)
             ELSE Counted("converted", TRUE, TRUE)

ConvIdle ==
    /\ cpc = "idle" /\ nfiles = 0 /\ ckeep = FALSE /\ visited = 0
    /\ converted_count = 0 /\ skipped_count = 0 /\ failure = NoFailure
    /\ outcomes = <<>> /\ touched = <<>> /\ exit_code = -1

\* after parse_args and iter_input_files (lines 155-164)
ConvInit ==
    /\ cpc = "start"
    /\ nfiles \in 0..MaxFiles
    /\ ckeep \in BOOLEAN
    /\ visited = 0
    /\ converted_count = 0
    /\ skipped_count = 0
    /\ failure = NoFailure
    /\ outcomes = <<>>
    /\ touched = <<>>
    /\ exit_code = -1

\* lines 165-174: no file matched ends the run with 1
ConvStart ==
    /\ cpc = "start"
    /\ cpc' = IF nfiles = 0 THEN "done" ELSE "loop"
    /\ exit_code' = IF nfiles = 0 THEN 1 ELSE exit_code
    /\ UNCHANGED <<nfiles, ckeep, visited, converted_count, skipped_count,
                   failure, outcomes, touched>>
    /\ UNCHANGED <<nvars, tvars, mvars>>

\* one iteration of the loop, lines 176-215
ConvertFile ==
    /\ cpc = "loop"
    /\ visited < nfiles
    /\ \E f \in InputFiles : \E r \in {convert_file(f, ckeep)} :
              /\ touched' = Append(touched, [converted_name |-> f.converted_name,
                                             read |-> r.read, written |-> r.written])
              /\ IF r.kind = "raised"
                 THEN /\ cpc' = "done"
                      /\ exit_code' = 1
                      /\ failure' = r.failure
                      /\ UNCHANGED <<visited, converted_count, skipped_count, outcomes>>
                 ELSE /\ visited' = visited + 1
                      /\ converted_count' =
                            IF r.kind = "converted" THEN converted_count + 1
                            ELSE converted_count
                      /\ skipped_count' =
                            IF r.kind = "skipped" THEN skipped_count + 1
                            ELSE skipped_count
                      /\ outcomes' = Append(outcomes, r.kind)
                      /\ UNCHANGED <<cpc, exit_code, failure>>
    /\ UNCHANGED <<nfiles, ckeep>>
    /\ UNCHANGED <<nvars, tvars, mvars>>

\* lines 217-220: the summary, and 0
ConvFinish ==
    /\ cpc = "loop"
    /\ visited = nfiles
    /\ cpc' = "done"
    /\ exit_code' = 0
    /\ UNCHANGED <<nfiles, ckeep, visited, converted_count, skipped_count,
                   failure, outcomes, touched>>
    /\ UNCHANGED <<nvars, tvars, mvars>>

----------------------------------------------------------------------------
\* PowerBI-merge-converted.py

\* what an entries list of a converted file may hold
MergeElement(i, isObject) ==
    IF isObject THEN JDict(<< <<"id", JInt(i)>> >>) ELSE JInt(0)

MergeLists ==
    UNION { { [i \in 1..n |-> MergeElement(i, objs[i])] : objs \in [1..n -> BOOLEAN] }
            : n \in 0..MaxEntries }

MergeDocuments ==
    { JDict(<< <<"entries", JList(es)>> >>) : es \in MergeLists }
    \cup
    { JNull, JInt(7), JStr("text"), JBool(FALSE),
      JList(<< JDict(<< <<"id", JInt(1)>> >>) >>),
      JDict(<< <<"generator", JStr("snaffler")>> >>),
      JDict(<< <<"entries", JDict(<< <<"id", JInt(1)>> >>)>> >>) }

\* One matched file: how reading it ends and what it parses to.
MergeFiles ==
    { [load |-> "ok", doc |-> d] : d \in MergeDocuments }
    \cup
    { [load |-> l, doc |-> JNull] : l \in {"JSONDecodeError", "OSError", "UnicodeDecodeError"} }

\* load_json, lines 13-25: the parsed value; None after a JSONDecodeError or
\* an OSError; any other exception leaves the function
load_json(f) ==
    CASE f.load = "ok"                          -> f.doc
      [] f.load \in {"JSONDecodeError", "OSError"} -> JNull
      [] OTHER                                  -> Raise(f.load)

RECURSIVE extract_items(_, _, _, _)
\* the loop of lines 57-67 from item i on, with the items kept so far
extract_items(items, i, out, strict_mode) ==
    IF i > Len(items) THEN JList(out)
    ELSE IF IsDict(items[i])
         THEN extract_items(items, i + 1, Append(out, items[i]), strict_mode)
         ELSE IF strict_mode THEN Raise("ValueError")
              ELSE extract_items(items, i + 1, out, strict_mode)

\* the list of a document's entries, or the ValueError strict mode raises
extract_entries(doc, strict_mode) ==
    LET rejected == IF strict_mode THEN Raise("ValueError") ELSE JList(<<>>)
    IN  IF ~IsDict(doc) THEN rejected
        ELSE IF ~Has(doc, "entries") THEN rejected
        ELSE IF ~IsList(Get(doc, "entries")) THEN rejected
        ELSE extract_items(Get(doc, "entries").items, 1, <<>>, strict_mode)

\* merge_file with a file's entries put in front of those merged so far
merge_file_prepend(merged_so_far, f, strict_mode) ==
    LET doc == load_json(f)
    IN  IF IsRaise(doc) THEN doc
        ELSE IF doc = JNull THEN JList(merged_so_far)
        ELSE LET got == extract_entries(doc, strict_mode)
             IN  IF IsRaise(got) THEN got
                 ELSE JList(got.items \o merged_so_far)

\* the body of merge_entries' loop, lines 80-84: the merged list after the
\* file, or the exception that leaves merge_entries
merge_file(merged_so_far, f, strict_mode) ==
    LET doc == load_json(f)
    IN  IF IsRaise(doc) THEN doc
        ELSE IF doc = JNull THEN JList(merged_so_far)
        ELSE LET got == extract_entries(doc, strict_mode)
             IN  IF IsRaise(got) THEN got
                 ELSE JList(merged_so_far \o got.items)

MergeIdle ==
    /\ mpc = "idle" /\ mfiles = 0 /\ strict = FALSE /\ mvisited = 0
    /\ merged = <<>> /\ loaded = <<>> /\ mfailure = "none"
    /\ written = JNull /\ rc = -1

\* after parse_args and the glob of line 74
MergeInit ==
    /\ mpc = "loop"
    /\ mfiles \in 0..MaxFiles
    /\ strict \in BOOLEAN
    /\ mvisited = 0
    /\ merged = <<>>
    /\ loaded = <<>>
    /\ mfailure = "none"
    /\ written = JNull
    /\ rc = -1

\* one iteration of merge_entries' loop; an exception is caught by main
\* (lines 144-146), which returns 1 without writing
MergeFile ==
    /\ mpc = "loop"
    /\ mvisited < mfiles
    /\ \E f \in MergeFiles : \E r \in {merge_file(merged, f, strict)} :
              /\ loaded' = Append(loaded, f)
              /\ IF IsRaise(r)
                 THEN /\ mpc' = "done"
                      /\ rc' = 1
                      /\ mfailure' = r.exc
                      /\ UNCHANGED <<mvisited, merged>>
                 ELSE /\ merged' = r.items
                      /\ mvisited' = mvisited + 1
                      /\ UNCHANGED <<mpc, rc, mfailure>>
    /\ UNCHANGED <<mfiles, strict, written>>
    /\ UNCHANGED <<nvars, tvars, cvars>>

\* line 86 and main, lines 143-149: write {"entries": merged}
MergeWrite ==
    /\ mpc = "loop"
    /\ mvisited = mfiles
    /\ \E w \in {"ok", "OSError"} :
          IF w = "ok"
          THEN /\ written' = JDict(<< <<"entries", JList(merged)>> >>)
               /\ rc' = 0
               /\ mfailure' = mfailure
          ELSE /\ written' = written
               /\ rc' = 1
               /\ mfailure' = w
    /\ mpc' = "done"
    /\ UNCHANGED <<mfiles, strict, mvisited, merged, loaded>>
    /\ UNCHANGED <<nvars, tvars, cvars>>

----------------------------------------------------------------------------
\* The specifications.

NormStart == NormInit /\ TransIdle /\ ConvIdle /\ MergeIdle

NormNext == Normalize \/ Renormalize

SpecNormalize == NormStart /\ [][NormNext]_vars

TransStart == NormIdle /\ TransInit /\ ConvIdle /\ MergeIdle

TransNext == Transform \/ ParityCheck

SpecTransform == TransStart /\ [][TransNext]_vars

ConvStartState == NormIdle /\ TransIdle /\ ConvInit /\ MergeIdle

ConvNext == ConvStart \/ ConvertFile \/ ConvFinish

SpecConvert == ConvStartState /\ [][ConvNext]_vars

MergeStart == NormIdle /\ TransIdle /\ ConvIdle /\ MergeInit

MergeNext == MergeFile \/ MergeWrite

SpecMerge == MergeStart /\ [][MergeNext]_vars

----------------------------------------------------------------------------
\* Properties of normalize_entry, under SpecNormalize.

\* out has the fields of src except those named in dropped, each with the
\* value it has in src
SameFieldsExcept(out, src, dropped) ==
    /\ IsDict(out)
    /\ Keys(out) = Keys(src) \ dropped
    /\ \A k \in Keys(out) : Get(out, k) = Get(src, k)

\* the wrapper field holds exactly one bucket, and the bucket an object
SingleObjectBucket(e) ==
    /\ Has(e, "eventProperties")
    /\ IsDict(Get(e, "eventProperties"))
    /\ Len(Get(e, "eventProperties").members) = 1
    /\ IsDict(Get(e, "eventProperties").members[1][2])

\* C2: an entry whose eventProperties holds a single bucket {B: P}, P an
\* object, normalized with keepWrapper false, loses eventProperties and
\* rawEventProperties and gets event = {"severity": B} updated with P's
\* fields, for every bucket name B, the empty string included.
C2_SingleBucketFlattened ==
    (npc # "start" /\ ~keep_raw /\ SingleObjectBucket(entry)) =>
        LET B == Get(entry, "eventProperties").members[1][1]
            P == Get(entry, "eventProperties").members[1][2]
        IN  /\ IsDict(normalized)
            /\ ~Has(normalized, "eventProperties")
            /\ ~Has(normalized, "rawEventProperties")
            /\ Has(normalized, "event")
            /\ IsDict(Get(normalized, "event"))
            /\ Keys(Get(normalized, "event")) = {"severity"} \cup Keys(P)
            /\ \A k \in Keys(P) : Get(Get(normalized, "event"), k) = Get(P, k)
            /\ ~Has(P, "severity") => Get(Get(normalized, "event"), "severity") = JStr(B)

\* C3: normalize_entry never raises, whatever eventProperties holds, and
\* when eventProperties is absent or no object the result is the entry
\* without the excluded fields, with no event block added.
C3_NormalizeTotal ==
    npc # "start" =>
        /\ ~IsRaise(normalized)
        /\ (~Has(entry, "eventProperties") \/ ~IsDict(Get(entry, "eventProperties"))) =>
              SameFieldsExcept(normalized, entry,
                  {"eventProperties"} \cup
                  (IF keep_raw THEN {} ELSE {"rawEventProperties"}))

\* C6: an entry without eventProperties comes back with its fields
\* unchanged and no event block added; rawEventProperties is removed when
\* keepWrapper is false and left as it was when keepWrapper is true.
C6_NoWrapperIdentity ==
    (npc # "start" /\ ~Has(entry, "eventProperties")) =>
        /\ SameFieldsExcept(normalized, entry,
               IF keep_raw THEN {} ELSE {"rawEventProperties"})
        /\ keep_raw => normalized = entry
        /\ Has(normalized, "event") <=> Has(entry, "event")

\* an entry without eventProperties and with the legacy field has been
\* normalized with keepWrapper false, and the legacy field is gone
C6_Witness ==
    /\ npc = "normalized"
    /\ ~Has(entry, "eventProperties")
    /\ Has(entry, "rawEventProperties")
    /\ ~keep_raw
    /\ IsDict(normalized)
    /\ ~Has(normalized, "rawEventProperties")

\* C7 as stated: normalizing the output of normalize_entry again, with any
\* keepWrapper setting, returns that output unchanged.
C7_Idempotent ==
    npc = "renormalized" => renormalized = normalized

\* C7 amended: the output of normalize_entry has no wrapper field, and
\* normalizing it again returns it unchanged except that a second call
\* with keepWrapper false removes rawEventProperties; so the second call
\* is a no-op unless the first kept the legacy field and the second drops it.
C7_IdempotentUpToLegacyField ==
    npc = "renormalized" =>
        /\ ~Has(normalized, "eventProperties")
        /\ SameFieldsExcept(renormalized, normalized,
               IF keep_raw2 THEN {} ELSE {"rawEventProperties"})
        /\ (keep_raw2 \/ ~keep_raw) => renormalized = normalized

\* a flattened entry that kept its raw buckets has been normalized again
\* with keepWrapper true and came back unchanged
C7_Witness ==
    /\ npc = "renormalized"
    /\ Has(entry, "eventProperties")
    /\ Has(normalized, "event")
    /\ IsDict(Get(normalized, "event"))
    /\ keep_raw /\ keep_raw2
    /\ Has(normalized, "rawEventProperties")
    /\ renormalized = normalized

----------------------------------------------------------------------------
\* Properties of transform_document, under SpecTransform.

\* a mapping whose "entries" field is a list
WellFormed(doc) == IsDict(doc) /\ IsList(Get(doc, "entries"))

\* C1: for a document that is a mapping with a list under "entries",
\* whatever the elements are, transform_document returns a mapping whose
\* "entries" list has the same length, element i coming from element i
\* (a mapping from a mapping, anything else unchanged), so that main's
\* parity check passes.
C1_EntryCountParity ==
    (tpc # "start" /\ WellFormed(document)) =>
        /\ WellFormed(transformed)
        /\ Len(Get(transformed, "entries").items) = Len(Get(document, "entries").items)
        /\ \A i \in 1..Len(Get(document, "entries").items) :
              LET old == Get(document, "entries").items[i]
                  new == Get(transformed, "entries").items[i]
              IN  IF IsDict(old) THEN IsDict(new) ELSE new = old
        /\ tpc = "checked" => parity = JNull

\* C8: a document that is no mapping, or has no "entries", or whose
\* "entries" is no list, comes back unchanged; any other comes back as a
\* mapping with the one field "entries", each mapping element replaced by
\* its normalize_entry result and every other element unchanged in place.
C8_TransformCaseSplit ==
    tpc # "start" =>
        IF ~WellFormed(document)
        THEN transformed = document
        ELSE /\ IsDict(transformed)
             /\ Keys(transformed) = {"entries"}
             /\ IsList(Get(transformed, "entries"))
             /\ Len(Get(transformed, "entries").items) = Len(Get(document, "entries").items)
             /\ \A i \in 1..Len(Get(document, "entries").items) :
                   LET old == Get(document, "entries").items[i]
                       new == Get(transformed, "entries").items[i]
                   IN  new = IF IsDict(old)
                             THEN normalize_entry(old, tkeep, ~tkeep)
                             ELSE old

----------------------------------------------------------------------------
\* Properties of the conversion loop, under SpecConvert.

\* C9: a failure on one file never ends the run early: the run ends after
\* every matched file was visited, or on a parity violation.
C9_SingleFileFailureNeverAborts ==
    (cpc = "done" /\ nfiles > 0) =>
        \/ visited = nfiles /\ exit_code = 0 /\ failure = NoFailure
        \/ failure.at = "parity check"

CountOf(kind) == Cardinality({i \in 1..Len(outcomes) : outcomes[i] = kind})

\* C10: converted_count + skipped_count is the number of files visited,
\* each visited file is counted once, as converted or as skipped; a file
\* whose name ends with the output suffix is counted as skipped and is
\* neither read nor written; a run that returns 0 has counted every
\* matched file.
C10_BatchAccounting ==
    /\ converted_count + skipped_count = visited
    /\ Len(outcomes) = visited
    /\ \A i \in 1..Len(outcomes) : outcomes[i] \in {"converted", "skipped"}
    /\ converted_count = CountOf("converted")
    /\ skipped_count = CountOf("skipped")
    /\ \A i \in 1..Len(touched) :
          touched[i].converted_name =>
              /\ ~touched[i].read
              /\ ~touched[i].written
              /\ i <= Len(outcomes)
              /\ outcomes[i] = "skipped"
    /\ exit_code = 0 => cpc = "done" /\ converted_count + skipped_count = nfiles

\* a run has returned 0 after converting a file, skipping an unreadable
\* one and skipping one named as an output
C10_Witness ==
    /\ cpc = "done"
    /\ exit_code = 0
    /\ converted_count >= 1
    /\ \E i \in 1..Len(touched) : touched[i].converted_name
    /\ \E i \in 1..Len(touched) :
          ~touched[i].converted_name /\ outcomes[i] = "skipped"

----------------------------------------------------------------------------
\* Properties of the merge, under SpecMerge.

\* C4: in strict mode a parsed document that is no mapping (null included),
\* or lacks "entries", or whose "entries" is no list, ends the merge with
\* an error and nothing written; in lenient mode it is passed over and the
\* loop goes on.
C4_StrictRejectsMalformed ==
    \A i \in 1..Len(loaded) :
        (loaded[i].load = "ok" /\ ~(IsDict(loaded[i].doc)
                                    /\ Has(loaded[i].doc, "entries")
                                    /\ IsList(Get(loaded[i].doc, "entries")))) =>
            IF strict
            THEN /\ i = Len(loaded)
                 /\ mpc = "done"
                 /\ rc = 1
                 /\ mfailure = "ValueError"
                 /\ written = JNull
            ELSE i <= mvisited

\* the entries a file contributes: the mappings of its list, in order,
\* when it was read and is a mapping with a list under "entries"
MappingEntries(f) ==
    IF f.load = "ok" /\ IsDict(f.doc) /\ Has(f.doc, "entries")
                    /\ IsList(Get(f.doc, "entries"))
    THEN SelectSeq(Get(f.doc, "entries").items, IsDict)
    ELSE <<>>

RECURSIVE Concatenated(_, _)
\* the contributions of the first n files, in file order
Concatenated(fs, n) ==
    IF n = 0 THEN <<>> ELSE Concatenated(fs, n - 1) \o MappingEntries(fs[n])

RECURSIVE TotalEntries(_, _)
TotalEntries(fs, n) ==
    IF n = 0 THEN 0 ELSE TotalEntries(fs, n - 1) + Len(MappingEntries(fs[n]))

\* C5: the merged list is the concatenation, in file order, of each
\* accepted document's mapping entries in their own order; its length is
\* the sum of their numbers; the document written is {"entries": merged}.
C5_MergeIsConcatenation ==
    /\ merged = Concatenated(loaded, mvisited)
    /\ Len(merged) = TotalEntries(loaded, mvisited)
    /\ mvisited >= 1 =>
          merged = Concatenated(loaded, mvisited - 1) \o MappingEntries(loaded[mvisited])
    /\ rc = 0 => /\ mvisited = mfiles
                 /\ written = JDict(<< <<"entries", JList(merged)>> >>)

\* a lenient merge of two files that differ, each giving entries, the
\* second one holding an element that is no mapping, has been written
C5_Witness ==
    /\ rc = 0
    /\ ~strict
    /\ mvisited >= 2
    /\ Len(MappingEntries(loaded[1])) = 2
    /\ Len(MappingEntries(loaded[2])) = 1
    /\ Len(Get(loaded[2].doc, "entries").items) = 2
    /\ Len(merged) >= 3

====
